---- MODULE Spec2Model ----
(***************************************************************************)
(* Orchestration core of the oxc linter.                                   *)
(*                                                                         *)
(*   Batch mode   : crates/oxc_cli/src/lint/mod.rs   (LintRunner)          *)
(*   Session mode : crates/oxc_language_server/src/main.rs (Backend)       *)
(*                                                                         *)
(* The two modes share no state.  SpecBatch runs one LintRunner, with the  *)
(* session left in its constructed state; SpecSession runs one Backend,    *)
(* with the batch runner left unconstructed.                               *)
(***************************************************************************)
EXTENDS Integers, Sequences, FiniteSets, TLC

(***************************************************************************)
(* Bounds of the model.                                                    *)
(***************************************************************************)
\* The largest number of files Walk::paths discovers.
MaxFiles == 2
\* The largest number of session handlers suspended at an await at once.
MaxInFlight == 2
\* The largest number of publishDiagnostics notifications a run sends.
MaxNotifications == 4
\* The highest document version the editor reaches.
MaxVersion == 1

(***************************************************************************)
(* Option<T>                                                               *)
(***************************************************************************)
NoneOpt == [is_some |-> FALSE]
Some(v) == [is_some |-> TRUE, value |-> v]

(***************************************************************************)
(* Batch mode: inputs                                                      *)
(***************************************************************************)
\* File names the walk can find, in the walk's order.
FileNames == <<"a.js", "b.js", "c.js", "d.js">>

\* Walk yields paths of the form "./name": a path is its list of components.
WalkPath(i) == <<".", FileNames[i]>>

\* The outcomes of Walk::new(..).paths(): the first n files, n <= MaxFiles.
WalkResults == {[i \in 1..n |-> WalkPath(i)] : n \in 0..MaxFiles}

\* Path::strip_prefix("./").unwrap_or(path)
StripPrefix(path) ==
    IF Len(path) > 1 /\ path[1] = "." THEN Tail(path) ELSE path

\* The ownership files codeowners::from_path can parse.  An ownership file
\* maps a path relative to the repository root to its owners; a path with no
\* rule has no entry.
OwnersFileA ==
    [p \in {<<"a.js">>, <<"b.js">>, <<"c.js">>} |->
        IF p = <<"a.js">> THEN {"@alice"} ELSE {"@bob"}]
OwnersFileB ==
    [p \in {<<"a.js">>, <<"b.js">>, <<"d.js">>} |->
        IF p = <<"b.js">> THEN {"@alice"} ELSE {"@alice", "@bob"}]
OwnersFiles == {OwnersFileA, OwnersFileB}

\* An Owners with no rule.
NoOwners == [p \in {} |-> {}]

\* What codeowners::from_path can do with the named file.  It returns an
\* Owners, not a Result: of a file it cannot read or parse it returns the
\* rules it has, here none, or it panics (NoneOpt).
FromPathResults(file) ==
    IF file = "CODEOWNERS" THEN {Some(f) : f \in OwnersFiles}
    ELSE {NoneOpt, Some(NoOwners)}

\* codeowners::Owners::of
OwnersOf(owners, path) ==
    IF path \in DOMAIN owners THEN Some(owners[path]) ELSE NoneOpt

\* The severities of the diagnostics one file can produce, in order.
DiagLists == {<<>>, <<"warning">>, <<"error", "warning">>}

EnablePlugins ==
    [import_plugin : BOOLEAN, jest_plugin : BOOLEAN, jsx_a11y_plugin : BOOLEAN]

\* command::LintOptions, the fields LintRunner reads.
CliLintOptions ==
    [ rules           : BOOLEAN,
      paths           : {<<>>, <<"fixtures">>},
      filter          : {<<>>, <<"allow all">>},
      config          : {NoneOpt, Some("oxlintrc.json")},
      enable_plugins  : EnablePlugins,
      codeowners_file : {NoneOpt, Some("CODEOWNERS"), Some("MISSING")},
      codeowners      : {<<>>, <<"@alice">>},
      quiet           : BOOLEAN,
      max_warnings    : {NoneOpt, Some(0), Some(1)} ]

VARIABLES
    options,            \* LintRunner.options
    pc,                 \* where LintRunner::run is
    result,             \* what run returned (NoneOpt until it returns)
    paths,              \* the paths handed to LintService
    number_of_files,    \* the local of that name in run
    linter,             \* what Linter::from_options gave: "none" before the call
    produced,           \* per path: what its worker sent (NoneOpt until it sends)
    channel,            \* DiagnosticService's channel, oldest message first
    closed,             \* every producer has finished
    diagnostic_service, \* DiagnosticService's settings and counters
    rendered,           \* the diagnostics written to stdout, by severity
    server,             \* the session process: "running" or "panicked"
    root_uri,           \* Backend.root_uri: OnceCell<Option<Url>>
    backend_options,    \* Backend.options
    gitignore_glob,     \* Backend.gitignore_glob
    diagnostics_report_map, \* Backend.diagnostics_report_map
    handlers,           \* the handlers suspended at an await, oldest first
    published,          \* per document: the diagnostics last published for it
    notifications,      \* the number of publishDiagnostics notifications sent
    document_version,   \* per document: the version the editor is at
    cached_version,     \* per document: the version of the content whose
                        \* reports are its cache entry, 0 with none
    closed_in_flight,   \* the documents closed while a re-lint of theirs is
                        \* suspended, no event for them received since
    code_action_response, \* what the last code_action request was answered
    no_result           \* the document of the last did_save, did_change or
                        \* did_open, if run_single had no result for it

batchVars ==
    <<options, pc, result, paths, number_of_files, linter, produced, channel,
      closed, diagnostic_service, rendered>>

\* What the session keeps of the editor's side of the documents.
editorVars == <<document_version, cached_version, closed_in_flight>>

sessionVars ==
    <<server, root_uri, backend_options, gitignore_glob, diagnostics_report_map,
      handlers, published, notifications, document_version, cached_version,
      closed_in_flight, code_action_response, no_result>>

vars == <<batchVars, sessionVars>>

(***************************************************************************)
(* Batch mode: LintRunner                                                  *)
(***************************************************************************)
InvalidOptions(message) == [kind |-> "InvalidOptions", message |-> message]
CliRunResultNone == [kind |-> "None"]

\* check_options without its test of the jsx-a11y flag.
check_options_two_plugins(opts) ==
    IF opts.config.is_some /\ opts.filter # <<>>
    THEN InvalidOptions("--config and rule filters cannot currently be used together.")
    ELSE IF opts.config.is_some
            /\ (opts.enable_plugins.import_plugin \/ opts.enable_plugins.jest_plugin)
    THEN InvalidOptions("--config and plugin options cannot currently be used together.")
    ELSE CliRunResultNone

\* LintRunner::check_options
check_options(opts) ==
    IF opts.config.is_some /\ opts.filter # <<>>
    THEN InvalidOptions("--config and rule filters cannot currently be used together.")
    ELSE IF opts.config.is_some
            /\ (opts.enable_plugins.import_plugin
                \/ opts.enable_plugins.jest_plugin
                \/ opts.enable_plugins.jsx_a11y_plugin)
    THEN InvalidOptions("--config and plugin options cannot currently be used together.")
    ELSE CliRunResultNone

\* The paths an ownership file keeps: those one of whose owners is wanted.
RECURSIVE FilterOwned(_, _, _)
FilterOwned(owners, wanted, ps) ==
    IF ps = <<>> THEN <<>>
    ELSE LET path_to_check == StripPrefix(Head(ps))
             of == OwnersOf(owners, path_to_check)
             keep == of.is_some
                     /\ \E owner \in of.value :
                            \E k \in DOMAIN wanted : wanted[k] = owner
             rest == FilterOwned(owners, wanted, Tail(ps))
         IN  IF keep THEN <<Head(ps)>> \o rest ELSE rest

\* LintRunner::apply_codeowners_file.  owners is what codeowners::from_path
\* returns for the named file; the second error is returned when a file is
\* named and maybe_codeowners_file is None, which the map of line 171
\* excludes.
apply_codeowners_file(opts, owners, ps) ==
    IF opts.codeowners_file.is_some /\ opts.codeowners = <<>>
    THEN [ok |-> FALSE, err |-> InvalidOptions("No wanted codeowners provided.")]
    ELSE LET maybe_codeowners_file ==
                 IF opts.codeowners_file.is_some THEN Some(owners) ELSE NoneOpt
         IN  IF maybe_codeowners_file.is_some
             THEN [ok    |-> TRUE,
                   paths |-> FilterOwned(maybe_codeowners_file.value, opts.codeowners, ps)]
             ELSE IF opts.codeowners_file.is_some
             THEN [ok  |-> FALSE,
                   err |-> InvalidOptions("Codeowners file could not be read or parsed.")]
             ELSE [ok |-> TRUE, paths |-> ps]

\* The Owners apply_codeowners_file can work with: those from_path returns
\* for the named file, and none to read when no file is named or the wanted
\* owners are missing.
Owners(opts) ==
    IF opts.codeowners_file.is_some /\ opts.codeowners # <<>>
    THEN {r.value : r \in {q \in FromPathResults(opts.codeowners_file.value) : q.is_some}}
    ELSE {NoOwners}

\* The file count taken before the ownership filter is applied.
NumberOfFiles_walked(walked, filtered) == Len(walked)

\* let number_of_files = paths.len();
NumberOfFiles(walked, filtered) == Len(filtered)

\* run returns early with r: nothing was discovered, spawned or sent.
Return(r) ==
    /\ pc' = "returned"
    /\ result' = Some(r)
    /\ UNCHANGED <<sessionVars, options, paths, number_of_files, produced, channel,
                   closed, diagnostic_service, rendered>>

\* run, when --rules is given: prints the rule list and returns.
RunPrintRules ==
    /\ pc = "new"
    /\ options.rules
    /\ Return(CliRunResultNone)
    /\ UNCHANGED linter

\* run, when check_options rejects the options.
RunCheckOptionsFails ==
    /\ pc = "new"
    /\ ~options.rules
    /\ check_options(options) # CliRunResultNone
    /\ Return(check_options(options))
    /\ UNCHANGED linter

\* The options pass the first two tests of run.
Checked ==
    /\ pc = "new"
    /\ ~options.rules
    /\ check_options(options) = CliRunResultNone

\* run, when no path is given and the working directory cannot be had.
RunNoCwd ==
    /\ Checked
    /\ options.paths = <<>>
    /\ Return(InvalidOptions("Failed to get current working directory."))
    /\ UNCHANGED linter

\* run, when the working directory is lost by the time the service is built:
\* std::env::current_dir().unwrap() panics, after the paths were filtered.
RunCwdPanics ==
    /\ Checked
    /\ options.paths # <<>>
    /\ \E walked \in WalkResults, owners \in Owners(options) :
          apply_codeowners_file(options, owners, walked).ok
    /\ pc' = "panicked"
    /\ UNCHANGED <<sessionVars, options, result, paths, number_of_files, linter,
                   produced, channel, closed, diagnostic_service, rendered>>

\* run, when codeowners::from_path panics in apply_codeowners_file.
RunCodeownersPanics ==
    /\ Checked
    /\ options.codeowners_file.is_some
    /\ options.codeowners # <<>>
    /\ NoneOpt \in FromPathResults(options.codeowners_file.value)
    /\ pc' = "panicked"
    /\ UNCHANGED <<sessionVars, options, result, paths, number_of_files, linter,
                   produced, channel, closed, diagnostic_service, rendered>>

\* run, when apply_codeowners_file fails.
RunCodeownersFails ==
    /\ Checked
    /\ \E walked \in WalkResults, owners \in Owners(options) :
          LET filtered == apply_codeowners_file(options, owners, walked)
          IN  /\ ~filtered.ok
              /\ Return(filtered.err)
    /\ UNCHANGED linter

\* Linter::from_options fails only on a configuration file it cannot parse.
FromOptionsResults(opts) == IF opts.config.is_some THEN BOOLEAN ELSE {TRUE}

\* run, were it to report the failure of Linter::from_options and go on to
\* lint.
RunLinterFails_goes_on ==
    /\ pc = "new"
    /\ ~options.rules
    /\ check_options(options) = CliRunResultNone
    /\ \E walked \in WalkResults, owners \in Owners(options) :
          LET filtered == apply_codeowners_file(options, owners, walked)
          IN  /\ filtered.ok
              /\ FALSE \in FromOptionsResults(options)
              /\ paths' = filtered.paths
              /\ number_of_files' = Len(filtered.paths)
              /\ produced' = [i \in DOMAIN filtered.paths |-> NoneOpt]
    /\ linter' = "failed"
    /\ diagnostic_service' = [ quiet |-> options.quiet,
                               max_warnings |-> options.max_warnings,
                               warnings_count |-> 0,
                               errors_count |-> 0,
                               max_warnings_exceeded |-> FALSE ]
    /\ pc' = "running"
    /\ UNCHANGED <<sessionVars, options, result, channel, closed, rendered>>

\* run, when Linter::from_options fails.
RunLinterFails ==
    /\ Checked
    /\ \E walked \in WalkResults, owners \in Owners(options) :
          LET filtered == apply_codeowners_file(options, owners, walked)
          IN  /\ filtered.ok
              /\ FALSE \in FromOptionsResults(options)
              /\ linter' = "failed"
              /\ Return(InvalidOptions("Failed to parse configuration file."))

\* A service built without with_quiet.
NewDiagnosticService_no_quiet(quiet, max_warnings) ==
    [ quiet                 |-> FALSE,
      max_warnings          |-> max_warnings,
      warnings_count        |-> 0,
      errors_count          |-> 0,
      max_warnings_exceeded |-> FALSE ]

\* A service built without with_max_warnings.
NewDiagnosticService_no_max_warnings(quiet, max_warnings) ==
    [ quiet                 |-> quiet,
      max_warnings          |-> NoneOpt,
      warnings_count        |-> 0,
      errors_count          |-> 0,
      max_warnings_exceeded |-> FALSE ]

\* DiagnosticService::default().with_quiet(..).with_max_warnings(..)
NewDiagnosticService(quiet, max_warnings) ==
    [ quiet                 |-> quiet,
      max_warnings          |-> max_warnings,
      warnings_count        |-> 0,
      errors_count          |-> 0,
      max_warnings_exceeded |-> FALSE ]

\* run, up to rayon::spawn: the linter is built and the workers are started.
RunSpawn ==
    /\ Checked
    /\ \E walked \in WalkResults, owners \in Owners(options) :
          LET filtered == apply_codeowners_file(options, owners, walked)
          IN  /\ filtered.ok
              /\ TRUE \in FromOptionsResults(options)
              /\ paths' = filtered.paths
              /\ number_of_files' = NumberOfFiles(walked, filtered.paths)
              /\ produced' = [i \in DOMAIN filtered.paths |-> NoneOpt]
    /\ linter' = "built"
    /\ diagnostic_service' = NewDiagnosticService(options.quiet, options.max_warnings)
    /\ pc' = "running"
    /\ UNCHANGED <<sessionVars, options, result, channel, closed, rendered>>

(***************************************************************************)
(* Batch mode: LintService (the producers)                                 *)
(***************************************************************************)
\* lint_service.run called after diagnostic_service.run has returned,
\* instead of on a thread of its own.
WorkersRunning_after_consumer == pc = "returned"

\* rayon::spawn(.. lint_service.run(&tx_error) ..): the workers run beside
\* the consumer, from the spawn on.
WorkersRunning == pc = "running"

\* One worker lints paths[i] and sends the file's diagnostics: one message
\* per file.  The send never waits: the channel is unbounded.
WorkerLint(i) ==
    /\ WorkersRunning
    /\ ~produced[i].is_some
    /\ \E diagnostics \in DiagLists :
          /\ produced' = [produced EXCEPT ![i] = Some(diagnostics)]
          /\ channel' = Append(channel, [path |-> paths[i], diagnostics |-> diagnostics])
    /\ UNCHANGED <<sessionVars, options, pc, result, paths, number_of_files, linter,
                   closed, diagnostic_service, rendered>>

\* LintService::run returns: every worker has sent, and the channel closes.
ProducersFinish ==
    /\ WorkersRunning
    /\ ~closed
    /\ \A i \in DOMAIN produced : produced[i].is_some
    /\ closed' = TRUE
    /\ UNCHANGED <<sessionVars, options, pc, result, paths, number_of_files, linter,
                   produced, channel, diagnostic_service, rendered>>

(***************************************************************************)
(* Batch mode: DiagnosticService (the consumer)                            *)
(***************************************************************************)
\* The service after one diagnostic of the given severity.
Count(svc, severity) ==
    LET warnings == svc.warnings_count + (IF severity = "warning" THEN 1 ELSE 0)
        errors   == svc.errors_count + (IF severity = "error" THEN 1 ELSE 0)
    IN  [svc EXCEPT
            !.warnings_count = warnings,
            !.errors_count = errors,
            !.max_warnings_exceeded =
                @ \/ (svc.max_warnings.is_some /\ warnings > svc.max_warnings.value)]

\* Whether a diagnostic of the given severity is written out.
Renders(svc, severity) == ~(svc.quiet /\ severity = "warning")

\* stdout after one diagnostic of the given severity.
Render(svc, out, severity) ==
    IF Renders(svc, severity) THEN [out EXCEPT ![severity] = @ + 1] ELSE out

RECURSIVE CountAll(_, _)
CountAll(svc, diagnostics) ==
    IF diagnostics = <<>> THEN svc
    ELSE CountAll(Count(svc, Head(diagnostics)), Tail(diagnostics))

RECURSIVE RenderAll(_, _, _)
RenderAll(svc, out, diagnostics) ==
    IF diagnostics = <<>> THEN out
    ELSE RenderAll(svc, Render(svc, out, Head(diagnostics)), Tail(diagnostics))

\* DiagnosticService::run, one turn of its loop: one message is received.
ConsumerRecv ==
    /\ pc = "running"
    /\ channel # <<>>
    /\ diagnostic_service' = CountAll(diagnostic_service, Head(channel).diagnostics)
    /\ rendered' = RenderAll(diagnostic_service, rendered, Head(channel).diagnostics)
    /\ channel' = Tail(channel)
    /\ UNCHANGED <<sessionVars, options, pc, result, paths, number_of_files, linter,
                   produced, closed>>

\* A summary that counts every diagnostic as a warning.
LintResult_all_warnings(files, svc) ==
    [ kind                  |-> "LintResult",
      number_of_files       |-> files,
      number_of_warnings    |-> svc.warnings_count + svc.errors_count,
      number_of_errors      |-> svc.errors_count,
      max_warnings_exceeded |-> svc.max_warnings_exceeded ]

\* CliRunResult::LintResult(..)
LintResult(files, svc) ==
    [ kind                  |-> "LintResult",
      number_of_files       |-> files,
      number_of_warnings    |-> svc.warnings_count,
      number_of_errors      |-> svc.errors_count,
      max_warnings_exceeded |-> svc.max_warnings_exceeded ]

\* DiagnosticService::run ends, the channel being closed and empty, and
\* LintRunner::run returns the summary.
ConsumerReturn ==
    /\ pc = "running"
    /\ channel = <<>>
    /\ closed
    /\ pc' = "returned"
    /\ result' = Some(LintResult(number_of_files, diagnostic_service))
    /\ UNCHANGED <<sessionVars, options, paths, number_of_files, linter, produced,
                   channel, closed, diagnostic_service, rendered>>

(***************************************************************************)
(* Batch mode: specification                                               *)
(***************************************************************************)
\* LintRunner::new(options)
InitBatch ==
    /\ options \in CliLintOptions
    /\ pc = "new"
    /\ result = NoneOpt
    /\ paths = <<>>
    /\ number_of_files = 0
    /\ linter = "none"
    /\ produced = <<>>
    /\ channel = <<>>
    /\ closed = FALSE
    /\ diagnostic_service = NewDiagnosticService(FALSE, NoneOpt)
    /\ rendered = [warning |-> 0, error |-> 0]
    \* no session is served
    /\ server = "running"
    /\ root_uri = NoneOpt
    /\ backend_options = [run |-> "OnType", enable |-> TRUE]
    /\ gitignore_glob = NoneOpt
    /\ diagnostics_report_map = <<>>
    /\ handlers = <<>>
    /\ published = [uri \in {"file:///ws/a.js", "file:///ws/b.js"} |-> NoneOpt]
    /\ notifications = 0
    /\ document_version = [uri \in {"file:///ws/a.js", "file:///ws/b.js"} |-> 0]
    /\ cached_version = [uri \in {"file:///ws/a.js", "file:///ws/b.js"} |-> 0]
    /\ closed_in_flight = {}
    /\ code_action_response = NoneOpt
    /\ no_result = NoneOpt

StepBatch ==
    \/ RunPrintRules
    \/ RunCheckOptionsFails
    \/ RunNoCwd
    \/ RunCwdPanics
    \/ RunCodeownersPanics
    \/ RunCodeownersFails
    \/ RunLinterFails
    \/ RunSpawn
    \/ \E i \in DOMAIN produced : WorkerLint(i)
    \/ ProducersFinish
    \/ ConsumerRecv
    \/ ConsumerReturn


(***************************************************************************)
(* Batch mode: properties                                                  *)
(***************************************************************************)
\* run has returned a result of the given kind.
Returned(kind) == pc = "returned" /\ result.is_some /\ result.value.kind = kind

\* The number of diagnostics of a severity in one file's list.
CountIn(diagnostics, severity) ==
    Cardinality({k \in DOMAIN diagnostics : diagnostics[k] = severity})

\* The number of diagnostics of a severity the workers have sent.
RECURSIVE SentTotal(_, _)
SentTotal(prod, severity) ==
    IF prod = <<>> THEN 0
    ELSE (IF Head(prod).is_some THEN CountIn(Head(prod).value, severity) ELSE 0)
         + SentTotal(Tail(prod), severity)

\* C1: a batch run that completes with a LintResult reports as
\* number_of_files the number of paths that remain after the code-owners
\* filter, each of which has one worker slot and has sent its result,
\* whatever the rule filter and the diagnostics are.
C1_FilesCounted ==
    Returned("LintResult") =>
        /\ result.value.number_of_files = Len(paths)
        /\ Len(produced) = Len(paths)
        /\ \A i \in DOMAIN produced : produced[i].is_some

\* A completed run with an ownership file and a rule filter that lints one
\* file with diagnostics.
C1_Witness ==
    /\ Returned("LintResult")
    /\ options.codeowners_file.is_some
    /\ options.filter # <<>>
    /\ result.value.number_of_files = 1
    /\ result.value.number_of_errors = 1

\* C2: when a batch run completes, number_of_warnings and number_of_errors
\* are the numbers of warning and of error diagnostics the workers sent over
\* all files, in whatever order the messages arrived.
C2_CountsExact ==
    Returned("LintResult") =>
        /\ result.value.number_of_warnings = SentTotal(produced, "warning")
        /\ result.value.number_of_errors = SentTotal(produced, "error")
        /\ channel = <<>>

\* A completed run over two files: two warnings and one error.
C2_Witness ==
    /\ Returned("LintResult")
    /\ Len(paths) = 2
    /\ result.value.number_of_warnings = 2
    /\ result.value.number_of_errors = 1

\* C3: with a max-warnings threshold T that the warnings sent exceed, the
\* result has max_warnings_exceeded; the flag, once set, stays set; and the
\* consumer drains every message, so the counts are the full ones.
C3_MaxWarnings ==
    /\ [](Returned("LintResult") /\ options.max_warnings.is_some
            /\ SentTotal(produced, "warning") > options.max_warnings.value
          => /\ result.value.max_warnings_exceeded
             /\ channel = <<>>
             /\ result.value.number_of_warnings = SentTotal(produced, "warning")
             /\ result.value.number_of_errors = SentTotal(produced, "error"))
    /\ [][pc = "running" /\ diagnostic_service.max_warnings_exceeded
            => diagnostic_service'.max_warnings_exceeded]_vars

\* A completed run with T = 1, two warnings and the flag set.
C3_Witness ==
    /\ Returned("LintResult")
    /\ options.max_warnings = Some(1)
    /\ result.value.number_of_warnings = 2
    /\ result.value.max_warnings_exceeded

\* C4: in quiet mode no warning is written out, every error is, and
\* number_of_warnings is still the number of warnings sent.
C4_Quiet ==
    options.quiet =>
        /\ rendered.warning = 0
        /\ Returned("LintResult") =>
              /\ rendered.error = SentTotal(produced, "error")
              /\ result.value.number_of_warnings = SentTotal(produced, "warning")

\* A completed quiet run with warnings counted and an error written out.
C4_Witness ==
    /\ options.quiet
    /\ Returned("LintResult")
    /\ result.value.number_of_warnings = 2
    /\ rendered.error = 1

\* A configuration path is given with a rule filter or a plugin flag.
ConfigConflict ==
    /\ options.config.is_some
    /\ \/ options.filter # <<>>
       \/ options.enable_plugins.import_plugin
       \/ options.enable_plugins.jest_plugin
       \/ options.enable_plugins.jsx_a11y_plugin

\* No file was discovered, handed to the linter, linted or reported.
NothingProcessed ==
    /\ paths = <<>>
    /\ number_of_files = 0
    /\ linter = "none"
    /\ produced = <<>>
    /\ channel = <<>>
    /\ rendered = [warning |-> 0, error |-> 0]

\* C5, as claimed: with a configuration path and a rule filter or a plugin
\* flag, run returns InvalidOptions.
C5_Original ==
    ConfigConflict /\ pc = "returned" => result.value.kind = "InvalidOptions"

\* C5, amended: with a configuration path and a rule filter or a plugin
\* flag, no file is ever processed, and run returns InvalidOptions unless
\* --rules is given, when it prints the rules and returns None.
C5_ConflictRejected ==
    ConfigConflict =>
        /\ NothingProcessed
        /\ pc \in {"new", "returned"}
        /\ pc = "returned" =>
              result.value.kind = (IF options.rules THEN "None" ELSE "InvalidOptions")

\* A run with a configuration path and the jsx-a11y plugin, rejected.
C5_Witness ==
    /\ ConfigConflict
    /\ options.filter = <<>>
    /\ options.enable_plugins =
          [import_plugin |-> FALSE, jest_plugin |-> FALSE, jsx_a11y_plugin |-> TRUE]
    /\ Returned("InvalidOptions")

\* C6: when Linter::from_options fails the run has returned InvalidOptions,
\* with no worker started, no message sent and no LintResult.
C6_LinterFailureAborts ==
    linter = "failed" =>
        /\ Returned("InvalidOptions")
        /\ result.value.message = "Failed to parse configuration file."
        /\ paths = <<>>
        /\ produced = <<>>
        /\ channel = <<>>
        /\ ~closed
        /\ rendered = [warning |-> 0, error |-> 0]

\* A run whose configuration file does not parse.
C6_Witness ==
    /\ linter = "failed"
    /\ options.config.is_some
    /\ pc = "returned"

\* C7: a started run terminates with the summary: the workers send, the
\* channel closes, the consumer drains it and run returns.
C7_Terminates == (pc = "running") ~> Returned("LintResult")

\* A run over files that has drained the closed channel and returned.
C7_Witness ==
    /\ Returned("LintResult")
    /\ closed
    /\ Len(paths) = MaxFiles
    /\ \A i \in DOMAIN produced : produced[i].is_some
    /\ channel = <<>>

\* C19, as claimed: a run that comes to its ownership filter with a file
\* named and no wanted owner, or with a named file that cannot be read, has
\* returned InvalidOptions with no file processed; and with no file named
\* the paths it lints are the paths discovered.
C19_CodeownersErrors ==
    /\ (/\ ~options.rules
        /\ check_options(options) = CliRunResultNone
        /\ pc \in {"running", "returned", "panicked"}
        /\ options.codeowners_file.is_some
        /\ \/ options.codeowners = <<>>
           \/ options.codeowners_file.value = "MISSING")
       => Returned("InvalidOptions") /\ NothingProcessed
    /\ (pc = "running" /\ ~options.codeowners_file.is_some)
       => paths \in WalkResults

(***************************************************************************)
(* Session mode: inputs                                                    *)
(***************************************************************************)
\* The documents of the editor, by URI, and the workspace root.
Uris == {"file:///ws/a.js", "file:///ws/b.js"}
RootUri == "file:///ws"

\* Url::path, as the list of the path's segments.
UrlPath(uri) ==
    CASE uri = "file:///ws/a.js" -> <<"ws", "a.js">>
      [] uri = "file:///ws/b.js" -> <<"ws", "b.js">>
      [] uri = "file:///ws"      -> <<"ws">>

\* Url::to_file_path: the path of a file URL.
UrlToFilePath(uri) ==
    CASE uri = "file:///ws/a.js" -> Some("/ws/a.js")
      [] uri = "file:///ws/b.js" -> Some("/ws/b.js")
      [] uri = "file:///ws"      -> Some("/ws")
      [] OTHER                   -> NoneOpt

\* Url::from_file_path
UrlFromFilePath(path) ==
    CASE path = "/ws/a.js" -> "file:///ws/a.js"
      [] path = "/ws/b.js" -> "file:///ws/b.js"
      [] path = "/ws"      -> "file:///ws"

\* str::starts_with, on segment lists
StartsWith(path, prefix) ==
    /\ Len(prefix) <= Len(path)
    /\ SubSeq(path, 1, Len(prefix)) = prefix

\* What GitignoreBuilder::build().ok() can give: no matcher, or a matcher
\* of the paths the workspace's ignore files name.
GitignoreGlobs == {NoneOpt, Some({}), Some({<<"ws", "b.js">>})}

Runs == {"OnSave", "OnType"}
Options == [run : Runs, enable : BOOLEAN]

\* impl Default for Options
DefaultOptions == [run |-> "OnType", enable |-> TRUE]

\* DiagnosticReport: a diagnostic and its optional fix.
ReportFix ==
    [ diagnostic    |-> [range |-> 1, message |-> "eslint(no-debugger): unexpected"],
      fixed_content |-> Some([range |-> 1, code |-> ""]) ]
ReportNoFix ==
    [ diagnostic    |-> [range |-> 2, message |-> "eslint(no-empty): empty block"],
      fixed_content |-> NoneOpt ]
ReportOtherFix ==
    [ diagnostic    |-> [range |-> 1, message |-> "eslint(no-var): use let"],
      fixed_content |-> Some([range |-> 3, code |-> "let"]) ]

\* What ServerLinter::run_single can answer for a document: nothing, or the
\* document's reports.
RunSingleResults == {NoneOpt, Some(<<>>), Some(<<ReportNoFix, ReportFix, ReportOtherFix>>)}

\* diagnostics.into_iter().map(|d| d.diagnostic).collect()
DiagnosticsOf(reports) == [k \in DOMAIN reports |-> reports[k].diagnostic]

(***************************************************************************)
(* Session mode: Backend                                                   *)
(***************************************************************************)
Disable == 0
OnSave == 1
OnType == 2

\* get_lint_level without its test of enable.
get_lint_level_ignores_enable(opts) ==
    IF opts.run = "OnSave" THEN OnSave ELSE OnType

\* Options::get_lint_level
get_lint_level(opts) ==
    IF opts.enable
    THEN (IF opts.run = "OnSave" THEN OnSave ELSE OnType)
    ELSE Disable

\* The early return of did_save, did_change and did_open:
\* if run_level < required { return; }
LevelPermits(run_level, required) == ~(run_level < required)

\* is_ignored that never consults the matcher.
is_ignored_never(uri) == FALSE

\* Backend::is_ignored
is_ignored(uri) ==
    IF ~(root_uri.is_some /\ root_uri.value.is_some) THEN FALSE
    ELSE IF ~StartsWith(UrlPath(uri), UrlPath(root_uri.value.value)) THEN FALSE
    ELSE IF ~gitignore_glob.is_some THEN FALSE
    ELSE UrlPath(uri) \in gitignore_glob.value

\* client.publish_diagnostics(uri, diagnostics, None): the notification is
\* handed to the client socket.
Publish(pub, uri, diagnostics) == [pub EXCEPT ![uri] = Some(diagnostics)]

\* The handlers list without its k-th element.
RemoveAt(seq, k) == SubSeq(seq, 1, k - 1) \o SubSeq(seq, k + 1, Len(seq))

\* What params.root_uri can be.
RootUris == {NoneOpt, Some(RootUri)}

\* init with a OnceCell::set that overwrites a set cell.
init_overwrites(cell, root) ==
    IF cell.is_some
    THEN [ok |-> FALSE, message |-> "root uri already initialized", root_uri |-> Some(root)]
    ELSE [ok |-> TRUE, root_uri |-> Some(root)]

\* Backend::init: OnceCell::set, whose failure is answered with an error.
init(cell, root) ==
    IF cell.is_some
    THEN [ok |-> FALSE, message |-> "root uri already initialized", root_uri |-> cell]
    ELSE [ok |-> TRUE, root_uri |-> Some(root)]

\* Backend::initialize, second and later calls: init fails and the request
\* is answered with its error.
InitializeAgain ==
    /\ server = "running"
    /\ \E root \in RootUris :
          /\ ~init(root_uri, root).ok
          /\ root_uri' = init(root_uri, root).root_uri
    /\ UNCHANGED <<batchVars, code_action_response, no_result, editorVars, server, backend_options, gitignore_glob,
                   diagnostics_report_map, handlers, published, notifications>>

\* Backend::initialize with no root: init sets the cell to None and
\* init_ignore_glob panics on expect("should get uri").
InitializeNoRoot ==
    /\ server = "running"
    /\ init(root_uri, NoneOpt).ok
    /\ root_uri' = init(root_uri, NoneOpt).root_uri
    /\ server' = "panicked"
    /\ UNCHANGED <<batchVars, code_action_response, no_result, editorVars, backend_options, gitignore_glob,
                   diagnostics_report_map, handlers, published, notifications>>

\* Backend::initialize with a root: sets the root, builds the ignore matcher
\* and takes the options of initialization_options.settings, if they parse.
Initialize ==
    /\ server = "running"
    /\ init(root_uri, Some(RootUri)).ok
    /\ root_uri' = init(root_uri, Some(RootUri)).root_uri
    /\ gitignore_glob' \in GitignoreGlobs
    /\ \E settings \in {NoneOpt} \cup {Some(o) : o \in Options} :
          backend_options' = IF settings.is_some THEN settings.value ELSE backend_options
    /\ UNCHANGED <<batchVars, code_action_response, no_result, editorVars, server, diagnostics_report_map, handlers,
                   published, notifications>>

\* Only one of the map's documents.
OpenedFiles_one(map) ==
    IF DOMAIN map = {} THEN {}
    ELSE {UrlToFilePath(CHOOSE uri \in DOMAIN map : TRUE).value}

\* The documents did_change_configuration clears: the keys of the map, each
\* converted to a file path.
OpenedFiles(map) == {UrlToFilePath(uri).value : uri \in DOMAIN map}

\* Backend::publish_all_diagnostics with an empty list for every path.
PublishCleared(pub, cleared) ==
    [uri \in DOMAIN pub |->
        IF \E path \in cleared : UrlFromFilePath(path) = uri THEN Some(<<>>) ELSE pub[uri]]

\* ConfigurationChanged that clears the diagnostics at every level.
ConfigurationChanged_always_clears(changed_options, rest) ==
    LET cleared == OpenedFiles(diagnostics_report_map)
    IN  /\ notifications + Cardinality(cleared) <= MaxNotifications
        /\ published' = PublishCleared(published, cleared)
        /\ notifications' = notifications + Cardinality(cleared)
        /\ IF get_lint_level(changed_options) = Disable
           THEN /\ Len(rest) < MaxInFlight
                /\ handlers' = Append(rest,
                                 [ at              |-> "store options",
                                   changed_options |-> changed_options,
                                   cleared         |-> cleared ])
                /\ UNCHANGED backend_options
           ELSE /\ backend_options' = changed_options
                /\ handlers' = rest
        /\ UNCHANGED <<batchVars, code_action_response, no_result, editorVars, server, root_uri, gitignore_glob,
                       diagnostics_report_map>>

\* did_change_configuration from the parsed options on, the other suspended
\* handlers being rest: clears the diagnostics when the new level is Disable,
\* and is then suspended on the publishes with the options still to store.
ConfigurationChanged(changed_options, rest) ==
    LET cleared == IF get_lint_level(changed_options) = Disable
                   THEN OpenedFiles(diagnostics_report_map) ELSE {}
    IN  /\ notifications + Cardinality(cleared) <= MaxNotifications
        /\ published' = PublishCleared(published, cleared)
        /\ notifications' = notifications + Cardinality(cleared)
        /\ IF get_lint_level(changed_options) = Disable
           THEN /\ Len(rest) < MaxInFlight
                /\ handlers' = Append(rest,
                                 [ at              |-> "store options",
                                   changed_options |-> changed_options,
                                   cleared         |-> cleared ])
                /\ UNCHANGED backend_options
           ELSE /\ backend_options' = changed_options
                /\ handlers' = rest
        /\ UNCHANGED <<batchVars, code_action_response, no_result, editorVars, server, root_uri, gitignore_glob, diagnostics_report_map>>

\* did_change_configuration with settings that parse.
DidChangeConfiguration ==
    /\ server = "running"
    /\ \E changed_options \in Options : ConfigurationChanged(changed_options, handlers)

\* did_change_configuration with settings that do not parse: the handler
\* asks the client for the configuration and waits for the answer.
DidChangeConfigurationFallback ==
    /\ server = "running"
    /\ Len(handlers) < MaxInFlight
    /\ handlers' = Append(handlers, [at |-> "configuration"])
    /\ UNCHANGED <<batchVars, code_action_response, no_result, editorVars, server, root_uri, backend_options, gitignore_glob,
                   diagnostics_report_map, published, notifications>>

\* ConfigurationFails that falls back to the default options.
ConfigurationFails_stores_default(k) ==
    /\ server = "running"
    /\ k \in DOMAIN handlers
    /\ handlers[k].at = "configuration"
    /\ handlers' = RemoveAt(handlers, k)
    /\ backend_options' = DefaultOptions
    /\ UNCHANGED <<batchVars, code_action_response, no_result, editorVars, server, root_uri, gitignore_glob,
                   diagnostics_report_map, published, notifications>>

\* The client's answer fails, is empty or does not parse: the handler logs
\* and returns.
ConfigurationFails(k) ==
    /\ server = "running"
    /\ k \in DOMAIN handlers
    /\ handlers[k].at = "configuration"
    /\ handlers' = RemoveAt(handlers, k)
    /\ UNCHANGED <<batchVars, code_action_response, no_result, editorVars, server, root_uri, backend_options, gitignore_glob,
                   diagnostics_report_map, published, notifications>>

\* The client's answer parses: the handler goes on with these options.
ConfigurationAnswers(k) ==
    /\ server = "running"
    /\ k \in DOMAIN handlers
    /\ handlers[k].at = "configuration"
    /\ \E changed_options \in Options :
          ConfigurationChanged(changed_options, RemoveAt(handlers, k))

\* StoreOptions that keeps the old options while there is no root.
StoreOptions_with_root(k) ==
    /\ server = "running"
    /\ k \in DOMAIN handlers
    /\ handlers[k].at = "store options"
    /\ backend_options' =
          IF root_uri.is_some THEN handlers[k].changed_options ELSE backend_options
    /\ handlers' = RemoveAt(handlers, k)
    /\ UNCHANGED <<batchVars, code_action_response, no_result, editorVars, server, root_uri, gitignore_glob,
                   diagnostics_report_map, published, notifications>>

\* did_change_configuration, after the publishes:
\* *self.options.lock().await = changed_options
StoreOptions(k) ==
    /\ server = "running"
    /\ k \in DOMAIN handlers
    /\ handlers[k].at = "store options"
    /\ backend_options' = handlers[k].changed_options
    /\ handlers' = RemoveAt(handlers, k)
    /\ UNCHANGED <<batchVars, code_action_response, no_result, editorVars, server, root_uri, gitignore_glob, diagnostics_report_map,
                   published, notifications>>

\* The handler returns at once: nothing of the session changes.
ReturnsAtOnce ==
    UNCHANGED <<batchVars, code_action_response, document_version, cached_version,
                server, root_uri, backend_options, gitignore_glob,
                diagnostics_report_map, handlers, published, notifications>>

\* An event that goes no further: the handler returns at once.
Returns ==
    /\ ReturnsAtOnce
    /\ UNCHANGED no_result

\* handle_file_update without its test of the root.
handle_file_update_without_root(uri, version) ==
    \E answer \in RunSingleResults :
        IF answer.is_some
        THEN /\ notifications < MaxNotifications
             /\ Len(handlers) < MaxInFlight
             /\ published' = Publish(published, uri, DiagnosticsOf(answer.value))
             /\ notifications' = notifications + 1
             /\ handlers' = Append(handlers,
                              [ at             |-> "insert",
                                uri            |-> uri,
                                linted_version |-> document_version[uri],
                                diagnostics    |-> answer.value ])
             /\ UNCHANGED <<batchVars, code_action_response, no_result, document_version, cached_version, server, root_uri,
                            backend_options, gitignore_glob, diagnostics_report_map>>
        ELSE Returns

\* handle_file_update_given that takes no result of run_single for an empty
\* list of reports.
handle_file_update_given_clears(uri, version, answer) ==
    LET diagnostics == IF answer.is_some THEN answer.value ELSE <<>>
    IN  IF root_uri.is_some /\ root_uri.value.is_some
        THEN /\ notifications < MaxNotifications
             /\ Len(handlers) < MaxInFlight
             /\ published' = Publish(published, uri, DiagnosticsOf(diagnostics))
             /\ notifications' = notifications + 1
             /\ handlers' = Append(handlers,
                              [ at             |-> "insert",
                                uri            |-> uri,
                                linted_version |-> document_version[uri],
                                diagnostics    |-> diagnostics ])
             /\ UNCHANGED <<batchVars, code_action_response, document_version,
                            cached_version, server, root_uri, backend_options,
                            gitignore_glob, diagnostics_report_map>>
        ELSE ReturnsAtOnce

\* Backend::handle_file_update up to the await of publish_diagnostics, answer
\* being what run_single gives: with a root and a result, the result's
\* reports are published and the handler is suspended with the insert still
\* to do; with no root or no result the handler returns.  The version is not
\* read; the handler lints the content the document has now, which
\* linted_version names.
handle_file_update_given(uri, version, answer) ==
    IF root_uri.is_some /\ root_uri.value.is_some /\ answer.is_some
    THEN /\ notifications < MaxNotifications
         /\ Len(handlers) < MaxInFlight
         /\ published' = Publish(published, uri, DiagnosticsOf(answer.value))
         /\ notifications' = notifications + 1
         /\ handlers' = Append(handlers,
                          [ at             |-> "insert",
                            uri            |-> uri,
                            linted_version |-> document_version[uri],
                            diagnostics    |-> answer.value ])
         /\ UNCHANGED <<batchVars, code_action_response, document_version,
                        cached_version, server, root_uri, backend_options,
                        gitignore_glob, diagnostics_report_map>>
    ELSE ReturnsAtOnce

\* Backend::handle_file_update, whatever run_single gives.
handle_file_update(uri, version) ==
    /\ \E answer \in RunSingleResults : handle_file_update_given(uri, version, answer)
    /\ UNCHANGED no_result

\* did_save, did_change and did_open, which differ in the level they need
\* and in the version they pass on.  An event for uri is received.
DocumentEvent(uri, required, version) ==
    /\ closed_in_flight' = closed_in_flight \ {uri}
    /\ IF LevelPermits(get_lint_level(backend_options), required) /\ ~is_ignored(uri)
       THEN handle_file_update(uri, version)
       ELSE Returns

did_save(uri) ==
    /\ server = "running"
    /\ DocumentEvent(uri, OnSave, NoneOpt)

did_change(uri) ==
    /\ server = "running"
    /\ DocumentEvent(uri, OnType, Some(document_version[uri]))

did_open(uri) ==
    /\ server = "running"
    /\ DocumentEvent(uri, OnType, Some(document_version[uri]))

\* DocumentEvent, on record: no_result names the document when the event
\* was let through and run_single had no result for it.
DocumentEventRecorded(uri, required, version) ==
    /\ closed_in_flight' = closed_in_flight \ {uri}
    /\ \E answer \in RunSingleResults :
          IF LevelPermits(get_lint_level(backend_options), required) /\ ~is_ignored(uri)
          THEN /\ handle_file_update_given(uri, version, answer)
               /\ no_result' =
                     IF root_uri.is_some /\ root_uri.value.is_some /\ ~answer.is_some
                     THEN Some(uri) ELSE NoneOpt
          ELSE /\ ReturnsAtOnce
               /\ no_result' = NoneOpt

did_save_recorded(uri) ==
    /\ server = "running"
    /\ DocumentEventRecorded(uri, OnSave, NoneOpt)

did_change_recorded(uri) ==
    /\ server = "running"
    /\ DocumentEventRecorded(uri, OnType, Some(document_version[uri]))

did_open_recorded(uri) ==
    /\ server = "running"
    /\ DocumentEventRecorded(uri, OnType, Some(document_version[uri]))

\* handle_file_update after the await:
\* self.diagnostics_report_map.insert(uri.to_string(), diagnostics)
Insert(k) ==
    /\ server = "running"
    /\ k \in DOMAIN handlers
    /\ handlers[k].at = "insert"
    /\ diagnostics_report_map' =
          [u \in DOMAIN diagnostics_report_map \cup {handlers[k].uri} |->
              IF u = handlers[k].uri THEN handlers[k].diagnostics
              ELSE diagnostics_report_map[u]]
    /\ cached_version' = [cached_version EXCEPT ![handlers[k].uri] = handlers[k].linted_version]
    /\ handlers' = RemoveAt(handlers, k)
    /\ closed_in_flight' =
          IF \E j \in DOMAIN handlers' :
                handlers'[j].at = "insert" /\ handlers'[j].uri = handlers[k].uri
          THEN closed_in_flight
          ELSE closed_in_flight \ {handlers[k].uri}
    /\ UNCHANGED <<batchVars, code_action_response, no_result, document_version, server, root_uri, backend_options,
                   gitignore_glob, published, notifications>>

\* did_close, but for the record of it in closed_in_flight.
Close(uri) ==
    /\ server = "running"
    /\ diagnostics_report_map' =
          [u \in DOMAIN diagnostics_report_map \ {uri} |-> diagnostics_report_map[u]]
    /\ cached_version' = [cached_version EXCEPT ![uri] = 0]
    /\ UNCHANGED <<batchVars, code_action_response, no_result, document_version, server, root_uri, backend_options,
                   gitignore_glob, handlers, published, notifications>>

\* did_close
did_close(uri) ==
    /\ Close(uri)
    /\ UNCHANGED closed_in_flight

\* did_close, on record: the document is closed while a re-lint of it is
\* suspended, or with none.
did_close_recorded(uri) ==
    /\ Close(uri)
    /\ closed_in_flight' =
          IF \E k \in DOMAIN handlers : handlers[k].at = "insert" /\ handlers[k].uri = uri
          THEN closed_in_flight \cup {uri}
          ELSE closed_in_flight \ {uri}

\* The editor's user edits the document: its next did_change carries the
\* next version.
EditorEdits(uri) ==
    /\ server = "running"
    /\ document_version[uri] < MaxVersion
    /\ document_version' = [document_version EXCEPT ![uri] = @ + 1]
    /\ UNCHANGED <<batchVars, code_action_response, no_result, cached_version, closed_in_flight, server, root_uri, backend_options,
                   gitignore_glob, diagnostics_report_map, handlers, published,
                   notifications>>

\* code_action without its test of the range.
code_action_any_range(map, uri, range) ==
    IF uri \notin DOMAIN map THEN NoneOpt
    ELSE LET matches == {k \in DOMAIN map[uri] : map[uri][k].fixed_content.is_some}
         IN  IF matches = {} THEN NoneOpt
             ELSE LET first == CHOOSE k \in matches : \A j \in matches : k <= j
                  IN  Some([ uri      |-> uri,
                             range    |-> map[uri][first].fixed_content.value.range,
                             new_text |-> map[uri][first].fixed_content.value.code ])

\* code_action: the quick fix of the first report of the document whose
\* range is the requested one and which has a fix.
code_action(map, uri, range) ==
    IF uri \notin DOMAIN map THEN NoneOpt
    ELSE LET matches == {k \in DOMAIN map[uri] :
                            /\ map[uri][k].diagnostic.range = range
                            /\ map[uri][k].fixed_content.is_some}
         IN  IF matches = {} THEN NoneOpt
             ELSE LET first == CHOOSE k \in matches : \A j \in matches : k <= j
                  IN  Some([ uri      |-> uri,
                             range    |-> map[uri][first].fixed_content.value.range,
                             new_text |-> map[uri][first].fixed_content.value.code ])

\* The ranges a code-action request can name.
Ranges == {1, 2, 3}

\* The code_action request: the handler reads the cache and answers.
CodeAction(uri, range) ==
    /\ server = "running"
    /\ code_action_response' = code_action(diagnostics_report_map, uri, range)
    /\ UNCHANGED <<batchVars, editorVars, no_result, server, root_uri,
                   backend_options, gitignore_glob, diagnostics_report_map,
                   handlers, published, notifications>>

(***************************************************************************)
(* Session mode: properties                                                *)
(***************************************************************************)
\* The session's level, read off the options: Disable when enable is false,
\* whatever run is.
C8_Level ==
    IF ~backend_options.enable THEN Disable
    ELSE IF backend_options.run = "OnSave" THEN OnSave ELSE OnType

\* C8: a did_open or did_change handled below level OnType, and a did_save
\* handled at level Disable, publishes nothing, leaves the cache as it is
\* and suspends no handler.
C8_LevelGate ==
    [][\A uri \in Uris :
          (\/ (did_open(uri) \/ did_change(uri)) /\ C8_Level < OnType
           \/ did_save(uri) /\ C8_Level < OnSave)
          => UNCHANGED <<published, notifications, diagnostics_report_map, handlers>>]_vars

\* An initialized, disabled session with a cached document and room for a
\* publish: a document event would publish were it let through.
C8_Witness ==
    /\ server = "running"
    /\ root_uri = Some(Some(RootUri))
    /\ backend_options = [run |-> "OnType", enable |-> FALSE]
    /\ gitignore_glob = NoneOpt
    /\ DOMAIN diagnostics_report_map = Uris
    /\ handlers = <<>>
    /\ notifications < MaxNotifications

\* A did_change_configuration handler takes up the options o, from the
\* notification's settings or from the client's answer.
C9_Takes(o) ==
    \/ ConfigurationChanged(o, handlers)
    \/ \E k \in DOMAIN handlers :
          handlers[k].at = "configuration" /\ ConfigurationChanged(o, RemoveAt(handlers, k))

\* C9: a configuration change to level Disable publishes an empty list for
\* every document in the cache at that moment, one notification each; the
\* options it then stores are disabled ones; and with disabled options in
\* effect a did_change or did_open publishes nothing.
C9_DisableClears ==
    [][/\ \A o \in Options :
             ~o.enable /\ C9_Takes(o) =>
                /\ \A uri \in DOMAIN diagnostics_report_map : published'[uri] = Some(<<>>)
                /\ notifications' = notifications + Cardinality(DOMAIN diagnostics_report_map)
       /\ \A k \in DOMAIN handlers :
             StoreOptions(k) => ~backend_options'.enable
       /\ \A uri \in Uris :
             ~backend_options.enable /\ (did_change(uri) \/ did_open(uri)) =>
                UNCHANGED <<published, notifications>>]_vars

\* The session is disabled and both documents, cached with reports, were
\* last published with an empty list.
C9_Witness ==
    /\ ~backend_options.enable
    /\ handlers = <<>>
    /\ \A uri \in Uris :
          /\ uri \in DOMAIN diagnostics_report_map
          /\ diagnostics_report_map[uri] # <<>>
          /\ published[uri] = Some(<<>>)

\* C10, as claimed: when a configuration change to level Disable completes,
\* the cache holds no report for any document that was cached, and a
\* code-action request for it returns none, whatever the range.
C10_DisableEmptiesCache ==
    [][\A k \in DOMAIN handlers :
          StoreOptions(k) =>
             \A path \in handlers[k].cleared :
                LET uri == UrlFromFilePath(path)
                IN  /\ \/ uri \notin DOMAIN diagnostics_report_map'
                       \/ diagnostics_report_map'[uri] = <<>>
                    /\ \A range \in Ranges :
                          code_action(diagnostics_report_map', uri, range) = NoneOpt]_vars

\* C11, as claimed: did_close leaves no cache entry for the document, and
\* a re-lint of it that was suspended when it was closed creates none as
\* long as no event for the document is received; a code-action request for
\* it returns none, whatever the range.
C11_ClosedStaysClosed ==
    [][/\ \A uri \in Uris :
             did_close_recorded(uri) =>
                /\ uri \notin DOMAIN diagnostics_report_map'
                /\ \A range \in Ranges :
                      code_action(diagnostics_report_map', uri, range) = NoneOpt
       /\ \A k \in DOMAIN handlers :
             Insert(k) /\ handlers[k].uri \in closed_in_flight =>
                /\ handlers[k].uri \notin DOMAIN diagnostics_report_map'
                /\ \A range \in Ranges :
                      code_action(diagnostics_report_map', handlers[k].uri, range) = NoneOpt]_vars

\* C12, as claimed: a re-lint of a lower version of a document that
\* completes after the cache entry was written for a higher version leaves
\* the entry as it is.
C12_VersionGuard ==
    [][\A k \in DOMAIN handlers :
          (/\ Insert(k)
           /\ handlers[k].uri \in DOMAIN diagnostics_report_map
           /\ handlers[k].linted_version < cached_version[handlers[k].uri])
          => /\ handlers[k].uri \in DOMAIN diagnostics_report_map'
             /\ diagnostics_report_map'[handlers[k].uri]
                   = diagnostics_report_map[handlers[k].uri]]_vars

\* C13: once the root is set no step changes it, nor the ignore matcher
\* built from it; and initialize then fails with the "already initialized"
\* error, whatever root it is called with, the cell keeping its value.
C13_RootWriteOnce ==
    [][root_uri.is_some =>
          /\ root_uri' = root_uri
          /\ gitignore_glob' = gitignore_glob
          /\ \A root \in RootUris :
                init(root_uri, root) =
                   [ ok       |-> FALSE,
                     message  |-> "root uri already initialized",
                     root_uri |-> root_uri ]
          /\ InitializeAgain => UNCHANGED vars]_vars

\* A session at work, its root set by the first initialize: any further
\* initialize finds the cell set.
C13_Witness ==
    /\ server = "running"
    /\ root_uri = Some(Some(RootUri))
    /\ ~init(root_uri, NoneOpt).ok
    /\ diagnostics_report_map # <<>>

\* The session has a root: Some(Some(root_uri)) = self.root_uri.get()
C14_HasRoot == root_uri.is_some /\ root_uri.value.is_some

\* C14: while the session has no root the cache is empty, nothing has been
\* published, no re-lint is suspended and every code-action request returns
\* none; and a did_open, did_change, did_save or did_close handled then
\* changes nothing of the session.
C14_UninitializedNoOp ==
    /\ [](~C14_HasRoot =>
             /\ diagnostics_report_map = <<>>
             /\ \A uri \in Uris : published[uri] = NoneOpt
             /\ notifications = 0
             /\ \A k \in DOMAIN handlers : handlers[k].at # "insert"
             /\ \A uri \in Uris, range \in Ranges :
                   code_action(diagnostics_report_map, uri, range) = NoneOpt)
    /\ [][\A uri \in Uris :
             (/\ ~C14_HasRoot
              /\ did_open(uri) \/ did_change(uri) \/ did_save(uri) \/ did_close(uri))
             => UNCHANGED <<server, root_uri, backend_options, gitignore_glob,
                            diagnostics_report_map, handlers, published,
                            notifications>>]_vars

\* No root yet, and options under which a did_save, with a root, would
\* re-lint its document.
C14_Witness ==
    /\ server = "running"
    /\ ~root_uri.is_some
    /\ backend_options = [run |-> "OnSave", enable |-> TRUE]
    /\ handlers = <<>>

\* C15, as claimed: a step of a did_change_configuration handler taken
\* while the root is not set leaves the options as they are and publishes
\* nothing.
C15_ConfigurationBeforeRoot ==
    [][(/\ ~root_uri.is_some
        /\ \/ DidChangeConfiguration
           \/ DidChangeConfigurationFallback
           \/ \E k \in DOMAIN handlers :
                 ConfigurationFails(k) \/ ConfigurationAnswers(k) \/ StoreOptions(k))
       => UNCHANGED <<backend_options, published, notifications>>]_vars

\* C15, amended: a did_change_configuration handled while the root is not
\* set publishes nothing and leaves the cache empty, but it does replace the
\* options: at once when the new options are enabled ones, and when its
\* handler completes when they are disabled ones.
C15_ConfigurationBeforeRootStores ==
    [][~root_uri.is_some =>
          /\ (\/ DidChangeConfiguration
              \/ DidChangeConfigurationFallback
              \/ \E k \in DOMAIN handlers :
                    ConfigurationFails(k) \/ ConfigurationAnswers(k) \/ StoreOptions(k))
             => /\ UNCHANGED <<published, notifications, diagnostics_report_map>>
                /\ diagnostics_report_map = <<>>
          /\ \A o \in Options :
                o.enable /\ C9_Takes(o) => backend_options' = o
          /\ \A k \in DOMAIN handlers :
                StoreOptions(k) => backend_options' = handlers[k].changed_options]_vars

\* No root yet, and the options are disabled ones a configuration change
\* has stored.
C15_Witness ==
    /\ server = "running"
    /\ ~root_uri.is_some
    /\ backend_options = [run |-> "OnSave", enable |-> FALSE]
    /\ handlers = <<>>

\* C16: when the settings of a did_change_configuration do not parse and
\* the configuration request fails too, the handler returns with the
\* options, the cache and the published diagnostics as they were.
C16_FailedFallbackIgnored ==
    [][\A k \in DOMAIN handlers :
          ConfigurationFails(k) =>
             /\ handlers[k].at = "configuration"
             /\ UNCHANGED <<backend_options, diagnostics_report_map, published,
                            notifications>>]_vars

\* A handler waits for the client's configuration in a session whose
\* options are not the default ones and whose cache holds a document.
C16_Witness ==
    /\ \E k \in DOMAIN handlers : handlers[k].at = "configuration"
    /\ backend_options = [run |-> "OnSave", enable |-> TRUE]
    /\ diagnostics_report_map # <<>>

\* The document is under the root and the ignore matcher names it.
C17_Ignored(uri) ==
    /\ root_uri = Some(Some(RootUri))
    /\ uri \in {"file:///ws/a.js", "file:///ws/b.js"}
    /\ gitignore_glob.is_some
    /\ UrlPath(uri) \in gitignore_glob.value

\* C17: a did_open, did_change or did_save for an ignored document starts
\* no re-lint, publishes nothing and leaves the cache as it is; so an
\* ignored document is never published, cached or under re-lint.
C17_IgnoredNeverLinted ==
    /\ [](\A uri \in Uris :
             C17_Ignored(uri) =>
                /\ published[uri] = NoneOpt
                /\ uri \notin DOMAIN diagnostics_report_map
                /\ \A k \in DOMAIN handlers :
                      handlers[k].at = "insert" => handlers[k].uri # uri)
    /\ [][\A uri \in Uris :
             C17_Ignored(uri) /\ (did_open(uri) \/ did_change(uri) \/ did_save(uri))
             => UNCHANGED <<published, notifications, diagnostics_report_map,
                            handlers>>]_vars

\* b.js is ignored in a session that lints on type, has linted a.js and
\* could publish more.
C17_Witness ==
    /\ server = "running"
    /\ C17_Ignored("file:///ws/b.js")
    /\ get_lint_level(backend_options) = OnType
    /\ "file:///ws/a.js" \in DOMAIN diagnostics_report_map
    /\ handlers = <<>>
    /\ notifications < MaxNotifications

\* C18: a code_action request changes neither the cache, the options, the
\* root nor the ignore patterns, suspends no handler and publishes nothing;
\* its answer is an edit exactly when the document's cache entry has a report
\* of the requested range with a fix, and the edit is then the fix of the
\* first such report; it is none otherwise, as for a document not cached.
C18_CodeActionPureRead ==
    [][\A uri \in Uris, range \in Ranges :
          CodeAction(uri, range) =>
             LET reports == IF uri \in DOMAIN diagnostics_report_map
                            THEN diagnostics_report_map[uri] ELSE <<>>
                 fixes   == {k \in DOMAIN reports :
                                /\ reports[k].diagnostic.range = range
                                /\ reports[k].fixed_content # NoneOpt}
             IN  /\ UNCHANGED <<server, root_uri, backend_options, gitignore_glob,
                                diagnostics_report_map, handlers, published,
                                notifications>>
                 /\ code_action_response'.is_some <=> fixes # {}
                 /\ \A k \in fixes :
                       (\A j \in fixes : k <= j) =>
                          code_action_response' =
                             Some([ uri      |-> uri,
                                    range    |-> reports[k].fixed_content.value.range,
                                    new_text |-> reports[k].fixed_content.value.code ])]_vars

\* a.js is cached with two reports of range 1 that have a fix, and one of
\* range 2 that has none; b.js is not cached.
C18_Witness ==
    /\ server = "running"
    /\ "file:///ws/a.js" \in DOMAIN diagnostics_report_map
    /\ diagnostics_report_map["file:///ws/a.js"] = <<ReportNoFix, ReportFix, ReportOtherFix>>
    /\ "file:///ws/b.js" \notin DOMAIN diagnostics_report_map
    /\ code_action_response
          = Some([uri |-> "file:///ws/a.js", range |-> 1, new_text |-> ""])

\* C20: a configuration change to enabled options publishes nothing, leaves
\* the cache as it is and stores exactly these options; and the published
\* diagnostics of a document change only in a did_open, did_change or
\* did_save for it, or in a configuration change to disabled options.
C20_OnlyDisableRetracts ==
    [][/\ \A o \in Options :
             o.enable /\ C9_Takes(o) =>
                /\ UNCHANGED <<published, notifications, diagnostics_report_map>>
                /\ backend_options' = o
       /\ \A uri \in Uris :
             published'[uri] # published[uri] =>
                \/ did_open(uri) \/ did_change(uri) \/ did_save(uri)
                \/ \E o \in Options : ~o.enable /\ C9_Takes(o)]_vars

\* The session lints on save, no handler is suspended, and the diagnostics
\* last published for a cached document are those of its reports: a change
\* to enabled options would retract them were it to clear.
C20_Witness ==
    /\ server = "running"
    /\ backend_options = [run |-> "OnSave", enable |-> TRUE]
    /\ handlers = <<>>
    /\ \E uri \in DOMAIN diagnostics_report_map :
          /\ diagnostics_report_map[uri] # <<>>
          /\ published[uri] = Some(DiagnosticsOf(diagnostics_report_map[uri]))

\* C21: a did_save, did_change or did_open that is let through for a
\* document that is not ignored, and for which run_single has no result,
\* leaves the session running, publishes nothing, suspends no handler and
\* leaves the cache, the document's entry with it, as it was.
C21_NoResultSkips ==
    [][\A uri \in Uris :
          (/\ \/ did_save_recorded(uri)
              \/ did_change_recorded(uri)
              \/ did_open_recorded(uri)
           /\ no_result' = Some(uri))
          => /\ server' = "running"
             /\ UNCHANGED <<diagnostics_report_map, published, notifications,
                            handlers, backend_options, root_uri, gitignore_glob>>]_vars

\* run_single had no result for the last event of a.js, a document whose
\* reports are cached and were published.
C21_Witness ==
    /\ server = "running"
    /\ no_result = Some("file:///ws/a.js")
    /\ "file:///ws/a.js" \in DOMAIN diagnostics_report_map
    /\ diagnostics_report_map["file:///ws/a.js"] = <<ReportNoFix, ReportFix, ReportOtherFix>>
    /\ published["file:///ws/a.js"]
          = Some(DiagnosticsOf(diagnostics_report_map["file:///ws/a.js"]))
    /\ handlers = <<>>

\* C22, as claimed: a did_change handled while a configuration change to
\* level Disable is suspended on its publishes leaves an empty list as the
\* diagnostics last published for a document the change cleared; and when
\* the configuration change completes, the diagnostics last published for
\* every document it cleared are the empty list.
C22_ClearedStaysCleared ==
    [][/\ \A uri \in Uris :
             (/\ did_change(uri)
              /\ \E k \in DOMAIN handlers :
                    /\ handlers[k].at = "store options"
                    /\ UrlToFilePath(uri).value \in handlers[k].cleared)
             => published'[uri] = Some(<<>>)
       /\ \A k \in DOMAIN handlers :
             StoreOptions(k) =>
                \A path \in handlers[k].cleared :
                   published'[UrlFromFilePath(path)] = Some(<<>>)]_vars

\* C23, as claimed: a re-lint that has a result publishes the diagnostics
\* of exactly the reports its handler then inserts, the publish coming
\* first; and a cached document for which no re-lint is suspended, and whose
\* last published diagnostics are not the empty list a change to level
\* Disable publishes, has as its cache entry the reports of the diagnostics
\* last published for it.
C23_CacheMatchesPublished ==
    /\ [][/\ \A uri \in Uris :
                (/\ did_save(uri) \/ did_change(uri) \/ did_open(uri)
                 /\ notifications' # notifications)
                => /\ uri \notin DOMAIN diagnostics_report_map'
                         \/ diagnostics_report_map'[uri] = diagnostics_report_map[uri]
                   /\ Len(handlers') = Len(handlers) + 1
                   /\ handlers'[Len(handlers')].at = "insert"
                   /\ handlers'[Len(handlers')].uri = uri
                   /\ published'[uri]
                         = Some(DiagnosticsOf(handlers'[Len(handlers')].diagnostics))
           /\ \A k \in DOMAIN handlers :
                Insert(k) =>
                   /\ diagnostics_report_map'[handlers[k].uri] = handlers[k].diagnostics
                   /\ UNCHANGED <<published, notifications>>]_vars
    /\ [](\A uri \in DOMAIN diagnostics_report_map :
             (/\ \A k \in DOMAIN handlers :
                    handlers[k].at = "insert" => handlers[k].uri # uri
              /\ published[uri].is_some
              /\ published[uri].value # <<>>)
             => DiagnosticsOf(diagnostics_report_map[uri]) = published[uri].value)

(***************************************************************************)
(* Specifications                                                          *)
(***************************************************************************)
\* main: the Backend as LspService::build constructs it.  No LintRunner is
\* made.
InitSession ==
    /\ server = "running"
    /\ root_uri = NoneOpt
    /\ backend_options = DefaultOptions
    /\ gitignore_glob = NoneOpt
    /\ diagnostics_report_map = <<>>
    /\ handlers = <<>>
    /\ published = [uri \in Uris |-> NoneOpt]
    /\ notifications = 0
    /\ document_version = [uri \in Uris |-> 0]
    /\ cached_version = [uri \in Uris |-> 0]
    /\ closed_in_flight = {}
    /\ code_action_response = NoneOpt
    /\ no_result = NoneOpt
    \* no batch run
    /\ options = NoneOpt
    /\ pc = "none"
    /\ result = NoneOpt
    /\ paths = <<>>
    /\ number_of_files = 0
    /\ linter = "none"
    /\ produced = <<>>
    /\ channel = <<>>
    /\ closed = FALSE
    /\ diagnostic_service = NewDiagnosticService(FALSE, NoneOpt)
    /\ rendered = [warning |-> 0, error |-> 0]

\* The steps that are not a document's event.
StepServer ==
    \/ InitializeAgain
    \/ InitializeNoRoot
    \/ Initialize
    \/ DidChangeConfiguration
    \/ DidChangeConfigurationFallback
    \/ \E k \in DOMAIN handlers : ConfigurationFails(k)
    \/ \E k \in DOMAIN handlers : ConfigurationAnswers(k)
    \/ \E k \in DOMAIN handlers : StoreOptions(k)
    \/ \E k \in DOMAIN handlers : Insert(k)

StepEvents ==
    \/ StepServer
    \/ \E uri \in Uris : did_save(uri)
    \/ \E uri \in Uris : did_change(uri)
    \/ \E uri \in Uris : did_open(uri)

StepSession ==
    \/ StepEvents
    \/ \E uri \in Uris : did_close(uri)

\* One batch run.
NextBatch == StepBatch
SpecBatch == InitBatch /\ [][NextBatch]_vars

\* The workers and the consumer are threads the scheduler keeps running: a
\* run that can take a step takes one.
SpecBatchFair == SpecBatch /\ WF_vars(NextBatch)

\* One editor session.
NextSession == StepSession
SpecSession == InitSession /\ [][NextSession]_vars

\* One editor session in which the editor asks for code actions.
NextCodeAction ==
    \/ StepSession
    \/ \E uri \in Uris, range \in Ranges : CodeAction(uri, range)
SpecCodeAction == InitSession /\ [][NextCodeAction]_vars

\* One editor session with the outcome of run_single on record.
NextRunSingle ==
    \/ StepServer
    \/ \E uri \in Uris : did_close(uri)
    \/ \E uri \in Uris : did_save_recorded(uri)
    \/ \E uri \in Uris : did_change_recorded(uri)
    \/ \E uri \in Uris : did_open_recorded(uri)
SpecRunSingle == InitSession /\ [][NextRunSingle]_vars

\* One editor session with the editor's side on record: the documents are
\* edited, so that the events are for different versions, and the closing
\* of a document under re-lint is recorded.
NextEditor ==
    \/ StepEvents
    \/ \E uri \in Uris : did_close_recorded(uri)
    \/ \E uri \in Uris : EditorEdits(uri)
SpecEditor == InitSession /\ [][NextEditor]_vars

====
